---- MODULE Spec2Model ----
(***************************************************************************)
(* Model of claude-usage-calendar.py: the scan of the JSONL session files  *)
(* (parse_jsonl_files), the reconciliation table message_data, the daily   *)
(* aggregation, build_usage_data, and the script of the generated page     *)
(* (its aggregation functions, its three views and their navigation).      *)
(*                                                                         *)
(* Specifications:                                                         *)
(*   Spec          the run of main over the lines of `Lines`               *)
(*   SpecFiles     the same run with the history of the failures of files  *)
(*   SpecCounters  the run over lines whose counters may be no integers    *)
(*   SpecZero      the run over measurements that may count no token       *)
(*   SpecDates     the run over one line, for timestamps and UTC offsets   *)
(*   SpecMain      the tail of main under --json, --no-open and --quiet    *)
(*   SpecPage      the page, loaded with some result of the scan           *)
(*   SpecKeys      the page with its keyboard shortcuts and help modal     *)
(*                                                                         *)
(* A Python dict is modelled as a sequence of [key, value] pairs in        *)
(* insertion order (dicts keep insertion order); a JSON line is modelled   *)
(* by the properties of it the code inspects.                              *)
(***************************************************************************)
EXTENDS Integers, Sequences, FiniteSets, TLC

\* Bounds of the model: files opened in one run, lines read in one run.
MaxFiles == 2
MaxLines == 3

---------------------------------------------------------------------------
(* Python dict: ordered sequence of [key |-> k, value |-> v].              *)

Keys(d) == {d[i].key : i \in DOMAIN d}

Get(d, k) == d[CHOOSE i \in DOMAIN d : d[i].key = k].value

\* d[k] = v: overwrite in place when the key exists, else insert at the end
Put(d, k, v) ==
    IF k \in Keys(d)
    THEN [i \in DOMAIN d |-> IF d[i].key = k THEN [key |-> k, value |-> v] ELSE d[i]]
    ELSE Append(d, [key |-> k, value |-> v])

Values(d) == [i \in DOMAIN d |-> d[i].value]

---------------------------------------------------------------------------
(* Date strings: a string is a sequence of one-character strings, ordered  *)
(* as Python orders str (by code point).                                   *)

Digit == <<"0", "1", "2", "3", "4", "5", "6", "7", "8", "9">>

CodePoint(c) ==
    IF c = "-" THEN 45
    ELSE 47 + (CHOOSE i \in 1..10 : Digit[i] = c)

RECURSIVE Digits(_, _)
\* n >= 0 written in decimal, zero-padded to at least `width` characters
Digits(n, width) ==
    IF n < 10 /\ width <= 1 THEN <<Digit[n + 1]>>
    ELSE Append(Digits(n \div 10, width - 1), Digit[(n % 10) + 1])

RECURSIVE StrLess(_, _)
\* a < b on Python strings
StrLess(a, b) ==
    IF Len(b) = 0 THEN FALSE
    ELSE IF Len(a) = 0 THEN TRUE
    ELSE IF a[1] # b[1] THEN CodePoint(a[1]) < CodePoint(b[1])
    ELSE StrLess(Tail(a), Tail(b))

\* date.toordinal-style day number of a proleptic Gregorian date (1970-01-01 = 0)
DaysFromCivil(y, m, d) ==
    LET yy  == IF m <= 2 THEN y - 1 ELSE y
        era == yy \div 400
        yoe == yy - era * 400
        mp  == (m + 9) % 12
        doy == (153 * mp + 2) \div 5 + d - 1
        doe == yoe * 365 + yoe \div 4 - yoe \div 100 + doy
    IN  era * 146097 + doe - 719468

\* inverse of DaysFromCivil: <<year, month, day>>
CivilFromDays(z) ==
    LET zz  == z + 719468
        era == zz \div 146097
        doe == zz - era * 146097
        yoe == (doe - doe \div 1460 + doe \div 36524 - doe \div 146096) \div 365
        doy == doe - (365 * yoe + yoe \div 4 - yoe \div 100)
        mp  == (5 * doy + 2) \div 153
        d   == doy - (153 * mp + 2) \div 5 + 1
        m   == IF mp < 10 THEN mp + 3 ELSE mp - 9
        y   == yoe + era * 400 + (IF m <= 2 THEN 1 ELSE 0)
    IN  <<y, m, d>>

\* timestamp.replace("Z", "+00:00") on the zone suffix of the timestamp
ReplaceZ(zone) == IF zone = "Z" THEN "+00:00" ELSE zone

\* utcoffset, in hours, of the suffixes datetime.fromisoformat is given here
UtcOffset(zone) ==
    CASE zone = "+00:00" -> 0
      [] zone = "-08:00" -> -8
      [] zone = "+09:00" -> 9

\* datetime.fromisoformat raises on this timestamp text
FromIsoFails(ts) == ts.text # "iso"

\* the day is taken in UTC, whatever the offset of the run
date_key_utc(ts, tzo) ==
    LET utcHours == DaysFromCivil(ts.y, ts.mo, ts.d) * 24 + ts.h
                    - UtcOffset(ReplaceZ(ts.zone))
        ymd      == CivilFromDays(utcHours \div 24)
    IN  Digits(ymd[1], 4) \o <<"-">> \o Digits(ymd[2], 2) \o <<"-">> \o Digits(ymd[3], 2)

\* strftime("%Y-%m-%d") of the instant ts seen in the zone UTC+tz hours
date_key(ts, tzo) ==
    LET utcHours   == DaysFromCivil(ts.y, ts.mo, ts.d) * 24 + ts.h
                      - UtcOffset(ReplaceZ(ts.zone))
        localHours == utcHours + tzo
        ymd        == CivilFromDays(localHours \div 24)
    IN  Digits(ymd[1], 4) \o <<"-">> \o Digits(ymd[2], 2) \o <<"-">> \o Digits(ymd[3], 2)

---------------------------------------------------------------------------
(* Input lines.  A line of a JSONL file is described by what the loop body *)
(* of parse_jsonl_files looks at:                                          *)
(*   json     "invalid": json.loads raises JSONDecodeError (also "")       *)
(*            "value"  : valid JSON that is no object ([], 42, "x", null)  *)
(*            "object" : a JSON object                                     *)
(*   type     the value of entry["type"] ("user" stands for any other)     *)
(*   message  "absent" | "value" (present, no object) | "object"           *)
(*   usage    "object": `counters` is msg["usage"], <<>> when it is        *)
(*            absent, {} or null; "value": a truthy non-object ("abc")     *)
(*   id_kind  "str": `id` is msg["id"], "" when absent or empty;           *)
(*            "list": an unhashable truthy id (["a"])                      *)
(*   timestamp [text, y, mo, d, h, zone]: text "" (absent or empty),       *)
(*            "garbage" (the parse raises: no ISO text, or no string) or   *)
(*            "iso" (an ISO-8601 instant with a zone suffix)               *)

UsageKeys == {"input_tokens", "output_tokens",
              "cache_read_input_tokens", "cache_creation_input_tokens"}

Ids == {"m1", "m2"}

T1 == [text |-> "iso", y |-> 2025, mo |-> 1, d |-> 1, h |-> 2, zone |-> "Z"]
T2 == [text |-> "iso", y |-> 2025, mo |-> 1, d |-> 5, h |-> 12, zone |-> "+00:00"]
NoTimestamp  == [text |-> "", y |-> 0, mo |-> 0, d |-> 0, h |-> 0, zone |-> ""]
BadTimestamp == [text |-> "garbage", y |-> 0, mo |-> 0, d |-> 0, h |-> 0, zone |-> ""]

Timestamps == {T1, T2}

\* usage blocks: no one dominates another, the third lacks three counters
UsageA == [input_tokens |-> 2, output_tokens |-> 0,
           cache_read_input_tokens |-> 1, cache_creation_input_tokens |-> 0]
UsageB == [input_tokens |-> 1, output_tokens |-> 1,
           cache_read_input_tokens |-> 0, cache_creation_input_tokens |-> 2]
UsageC == [output_tokens |-> 2]
UsageBig == [input_tokens |-> 3, output_tokens |-> 3,
             cache_read_input_tokens |-> 3, cache_creation_input_tokens |-> 3]

Usages == {UsageA, UsageB, UsageC}

Record(i, ts, u) ==
    [json |-> "object", type |-> "assistant", message |-> "object",
     usage |-> "object", counters |-> u, id_kind |-> "str", id |-> i,
     timestamp |-> ts]

\* the lines that carry a measurement
GoodLines == {Record(i, ts, u) : i \in Ids, ts \in Timestamps, u \in Usages}

\* one line per way of not carrying one; each would alter the entry of m1
\* (or create it) if it were taken for a measurement
Payload == Record("m1", T1, UsageBig)

BadLines ==
    { [Payload EXCEPT !.json = "invalid"],
      [Payload EXCEPT !.json = "value"],
      [Payload EXCEPT !.type = "user"],
      [Payload EXCEPT !.message = "absent"],
      [Payload EXCEPT !.message = "value"],
      [Payload EXCEPT !.counters = <<>>],
      [Payload EXCEPT !.usage = "value"],
      [Payload EXCEPT !.id = ""],
      [Payload EXCEPT !.id_kind = "list"],
      [Payload EXCEPT !.timestamp = NoTimestamp],
      [Payload EXCEPT !.timestamp = BadTimestamp],
      [Payload EXCEPT !.timestamp = BadTimestamp, !.usage = "value",
                      !.id_kind = "list"] }

Lines == GoodLines \cup BadLines

\* the UTC offsets (hours) the run is configured with
TzOffsets == {-7, 0}

---------------------------------------------------------------------------
(* The loop body of parse_jsonl_files.                                     *)

\* usage.get(key, 0)
UsageGet(u, k) == IF k \in DOMAIN u THEN u[k] ELSE 0

\* the merge adds instead of taking the maximum
Sum(a, b) == a + b

\* the merge keeps the value of the later measurement
Latest(a, b) == b

\* a usage counter that is a JSON string ("9"), no number: the counters that
\* are numbers are token counts, never negative
NotANumber == -1

IsNumber(v) == v # NotANumber

\* the smaller of the two is kept
Min(a, b) == IF a <= b THEN a ELSE b

\* Python max(a, b): the larger of two numbers (or of two strings; the model
\* has one string)
Max(a, b) == IF a >= b THEN a ELSE b

\* max(a, b) raises TypeError: `>` between a str and an int
MaxRaises(a, b) == IsNumber(a) # IsNumber(b)

\* Python None
None == <<"None">>

\* the entry of a new id does not take the day key derived for it
new_entry_undated(dk, input_t, output_t, cache_r, cache_c) ==
    [date |-> None, input |-> input_t, output |-> output_t,
     cache_read |-> cache_r, cache_create |-> cache_c]

\* lines 92-98: the entry created for a message id seen for the first time
new_entry(dk, input_t, output_t, cache_r, cache_c) ==
    [date |-> dk, input |-> input_t, output |-> output_t,
     cache_read |-> cache_r, cache_create |-> cache_c]

\* the merge takes the day of the later measurement too
merged_entry_redated(old, dk, input_t, output_t, cache_r, cache_c) ==
    [date |-> dk,
     input |-> IF old.input >= input_t THEN old.input ELSE input_t,
     output |-> IF old.output >= output_t THEN old.output ELSE output_t,
     cache_read |-> IF old.cache_read >= cache_r THEN old.cache_read ELSE cache_r,
     cache_create |->
         IF old.cache_create >= cache_c THEN old.cache_create ELSE cache_c]

\* the merge adds the output of a later measurement to the one it holds
merged_entry_output_added(old, dk, input_t, output_t, cache_r, cache_c) ==
    [date |-> old.date,
     input |-> IF old.input >= input_t THEN old.input ELSE input_t,
     output |-> old.output + output_t,
     cache_read |-> IF old.cache_read >= cache_r THEN old.cache_read ELSE cache_r,
     cache_create |->
         IF old.cache_create >= cache_c THEN old.cache_create ELSE cache_c]

\* lines 100-111: the entry of a known id after one more measurement of it
merged_entry(old, dk, input_t, output_t, cache_r, cache_c) ==
    [date |-> old.date,
     input |-> Max(old.input, input_t),
     output |-> Max(old.output, output_t),
     cache_read |-> Max(old.cache_read, cache_r),
     cache_create |-> Max(old.cache_create, cache_c)]

\* lines 100-111 when one of the four max raises: the assignments before it
\* have been made in the entry, the others have not
merged_before_raise(old, input_t, output_t, cache_r, cache_c) ==
    LET r1 == MaxRaises(old.input, input_t)
        r2 == r1 \/ MaxRaises(old.output, output_t)
        r3 == r2 \/ MaxRaises(old.cache_read, cache_r)
        r4 == r3 \/ MaxRaises(old.cache_create, cache_c)
    IN  [raises |-> r4,
         entry |->
             [date |-> old.date,
              input |-> IF r1 THEN old.input ELSE Max(old.input, input_t),
              output |-> IF r2 THEN old.output ELSE Max(old.output, output_t),
              cache_read |->
                  IF r3 THEN old.cache_read ELSE Max(old.cache_read, cache_r),
              cache_create |->
                  IF r4 THEN old.cache_create
                  ELSE Max(old.cache_create, cache_c)]]

\* every measurement replaces the entry of its id
reconcile_overwrite(md, msg_id, dk, input_t, output_t, cache_r, cache_c) ==
    Put(md, msg_id, new_entry(dk, input_t, output_t, cache_r, cache_c))

\* lines 91-111
reconcile(md, msg_id, dk, input_t, output_t, cache_r, cache_c) ==
    IF msg_id \notin Keys(md)
    THEN Put(md, msg_id, new_entry(dk, input_t, output_t, cache_r, cache_c))
    ELSE Put(md, msg_id,
             merged_entry(Get(md, msg_id), dk, input_t, output_t, cache_r, cache_c))

\* the check of the usage block is missing
no_usage_unchecked(l) == FALSE

\* a usage block that lacks one of the four counters is taken for none
no_usage_partial(l) == l.usage = "object" /\ DOMAIN l.counters # UsageKeys

\* lines 64-67: `not usage` (absent, {} or null; a truthy non-object passes)
no_usage(l) == l.usage = "object" /\ DOMAIN l.counters = {}

\* the check of the message id is missing
no_msg_id_unchecked(l) == FALSE

\* lines 69-71: `not msg_id`
no_msg_id(l) == l.id_kind = "str" /\ l.id = ""

\* lines 73-75: `not timestamp`
no_timestamp(l) == l.timestamp.text = ""

\* the error of the timestamp parse leaves the line loop
on_timestamp_error_raised == "raise"

\* lines 83-84: `except Exception: continue` around the timestamp parse
on_timestamp_error == "next"

\* line 113: `except json.JSONDecodeError: continue`
on_json_error == "next"

\* lines 59-114, one iteration: status "next" (go on with the next line) or
\* "raise" (an exception that no handler inside the line loop catches);
\* date_key is the day key lines 77-82 derived from the timestamp of the
\* line, None when the iteration did not get through them
process_line(md, l, tzo) ==
    LET next(m) == [status |-> "next", message_data |-> m, date_key |-> None]
        raise   == [status |-> "raise", message_data |-> md, date_key |-> None]
    IN  IF l.json = "invalid"
        THEN [status |-> on_json_error, message_data |-> md, date_key |-> None]
        ELSE IF l.json # "object" THEN raise
        ELSE IF ~(l.type = "assistant" /\ l.message # "absent") THEN next(md)
        ELSE IF l.message # "object" THEN raise
        ELSE IF no_usage(l) THEN next(md)
        ELSE IF no_msg_id(l) THEN next(md)
        ELSE IF no_timestamp(l) THEN next(md)
        ELSE IF FromIsoFails(l.timestamp)
             THEN [status |-> on_timestamp_error, message_data |-> md,
                   date_key |-> None]
        ELSE IF l.usage # "object"
             THEN [raise EXCEPT !.date_key = date_key(l.timestamp, tzo)]
        ELSE IF l.id_kind # "str"
             THEN [raise EXCEPT !.date_key = date_key(l.timestamp, tzo)]
        ELSE LET input_t  == UsageGet(l.counters, "input_tokens")
                 output_t == UsageGet(l.counters, "output_tokens")
                 cache_r  == UsageGet(l.counters, "cache_read_input_tokens")
                 cache_c  == UsageGet(l.counters, "cache_creation_input_tokens")
                 partial  == merged_before_raise(Get(md, l.id), input_t,
                                                 output_t, cache_r, cache_c)
                 dk       == date_key(l.timestamp, tzo)
             IN  IF l.id \in Keys(md) /\ partial.raises
                 THEN [status |-> "raise",
                       message_data |-> Put(md, l.id, partial.entry),
                       date_key |-> dk]
                 ELSE [next(reconcile(md, l.id, dk,
                                      input_t, output_t, cache_r, cache_c))
                           EXCEPT !.date_key = dk]

---------------------------------------------------------------------------
(* Aggregation (lines 118-134) and build_usage_data (lines 148-173).       *)

\* the default factory of daily_usage
ZeroUsage == [input_tokens |-> 0, output_tokens |-> 0,
              cache_read_input_tokens |-> 0, cache_creation_input_tokens |-> 0]

\* cache_read is added to the cache_creation total, cache_creation to none
add_usage_miskeyed(cur, data) ==
    [input_tokens |-> cur.input_tokens + data.input,
     output_tokens |-> cur.output_tokens + data.output,
     cache_read_input_tokens |-> cur.cache_read_input_tokens + data.cache_read,
     cache_creation_input_tokens |->
         cur.cache_creation_input_tokens + data.cache_read]

\* `=` in the place of `+=`: the day keeps its last event only
add_usage_assigned(cur, data) ==
    [input_tokens |-> data.input,
     output_tokens |-> data.output,
     cache_read_input_tokens |-> data.cache_read,
     cache_creation_input_tokens |-> data.cache_create]

\* lines 129-132: the four `+=` of one resolved event into its day
add_usage(cur, data) ==
    [input_tokens |-> cur.input_tokens + data.input,
     output_tokens |-> cur.output_tokens + data.output,
     cache_read_input_tokens |-> cur.cache_read_input_tokens + data.cache_read,
     cache_creation_input_tokens |->
         cur.cache_creation_input_tokens + data.cache_create]

\* lines 129-132: `+=` of the counters of this event raises TypeError (an
\* int and a str)
add_raises(data) ==
    \E v \in {data.input, data.output, data.cache_read, data.cache_create} :
        ~IsNumber(v)

RECURSIVE aggregate(_, _)
\* lines 127-132: for msg_id, data in message_data.items(), in dict order
aggregate(items, du) ==
    IF items = <<>> THEN du
    ELSE LET data == Head(items).value
             cur  == IF data.date \in Keys(du) THEN Get(du, data.date) ELSE ZeroUsage
         IN  aggregate(Tail(items), Put(du, data.date, add_usage(cur, data)))

RECURSIVE SumSeq(_)
\* Python sum() of a sequence of integers
SumSeq(xs) == IF xs = <<>> THEN 0 ELSE Head(xs) + SumSeq(Tail(xs))

RECURSIVE sorted(_)
\* Python sorted() of a set of strings
sorted(S) ==
    IF S = {} THEN <<>>
    ELSE LET least == CHOOSE a \in S : \A b \in S : ~StrLess(b, a)
         IN  <<least>> \o sorted(S \ {least})

\* dates[0] and dates[-1] are replaced by "" when there is no date, and the
\* days are counted from 1
build_usage_data_unguarded(du, count) ==
    LET dates  == sorted(Keys(du))
        vals   == Values(du)
        total(k) == SumSeq([i \in DOMAIN vals |-> vals[i][k]])
    IN  [date_range |-> [start |-> IF dates # <<>> THEN dates[1] ELSE <<>>,
                         end   |-> IF dates # <<>> THEN dates[Len(dates)] ELSE <<>>],
         days_with_data |-> Len(du) + 1,
         unique_messages |-> count,
         totals |-> [input_tokens |-> total("input_tokens"),
                     output_tokens |-> total("output_tokens"),
                     cache_read_input_tokens |-> total("cache_read_input_tokens"),
                     cache_creation_input_tokens |->
                         total("cache_creation_input_tokens"),
                     total_tokens |->
                         total("input_tokens") + total("output_tokens")
                         + total("cache_read_input_tokens")
                         + total("cache_creation_input_tokens")],
         daily_usage |-> du]

\* lines 148-173 (the timezone label is passed through and left out here)
build_usage_data(du, count) ==
    LET dates  == sorted(Keys(du))
        vals   == Values(du)
        total(k) == SumSeq([i \in DOMAIN vals |-> vals[i][k]])
        totals == [input_tokens |-> total("input_tokens"),
                   output_tokens |-> total("output_tokens"),
                   cache_read_input_tokens |-> total("cache_read_input_tokens"),
                   cache_creation_input_tokens |->
                       total("cache_creation_input_tokens")]
    IN  [date_range |-> [start |-> IF dates # <<>> THEN dates[1] ELSE None,
                         end   |-> IF dates # <<>> THEN dates[Len(dates)] ELSE None],
         days_with_data |-> Len(du),
         unique_messages |-> count,
         totals |-> [input_tokens |-> totals.input_tokens,
                     output_tokens |-> totals.output_tokens,
                     cache_read_input_tokens |-> totals.cache_read_input_tokens,
                     cache_creation_input_tokens |->
                         totals.cache_creation_input_tokens,
                     total_tokens |-> totals.input_tokens + totals.output_tokens
                         + totals.cache_read_input_tokens
                         + totals.cache_creation_input_tokens],
         daily_usage |-> du]

---------------------------------------------------------------------------
(* The run: main calls parse_jsonl_files(files, tz), then build_usage_data *)

VARIABLES
    pc,            \* "files": at `for filepath in files`; "lines": at `for line
                   \* in f`; "aggregate": line 118; "parsed": parse_jsonl_files
                   \* returned; "built": build_usage_data returned; "raised":
                   \* parse_jsonl_files was left by an exception; "written":
                   \* main wrote the page (line 1560); "done": main returned;
                   \* "page": the page is loaded in a browser
    tz,            \* the UTC offset (hours) of the run
    nfiles,        \* files taken from the list so far
    nlines,        \* lines read so far, over all files
    line,          \* the loop variable `line`: the last line read
    message_data,  \* the reconciliation table
    daily_usage,   \* first result of parse_jsonl_files
    msg_count,     \* second result of parse_jsonl_files
    usage_data,    \* result of build_usage_data
    read,          \* history: the measurements (qualifying lines) read so far
    first,         \* history: per message id, the first measurement read
    repeated,      \* history: the last line read had been read before
    derived,       \* history: the day key lines 77-82 derived from the last
                   \* line read, None when they derived none
    failed,        \* history: files whose open or read raised so far
    at_open,       \* history: the table as it was when the file being read
                   \* was opened
    dailyData,     \* page: `const dailyData`, the daily totals embedded in it
    minYear,       \* page: `const minYear`
    maxYear,       \* page: `const maxYear`
    currentView,   \* page: "monthly", "yearly" or "alltime"
    currentYear,   \* page: the year displayed
    currentMonth,  \* page: the month displayed, 1..12
    shown,         \* page: what the last render wrote into the document
    helpOpen,      \* page: the help modal has the class 'active'
    protipHidden,  \* page: the protip has the class 'hidden'
    args,          \* main: the flags --json, --no-open and --quiet
    effects        \* main: what the tail of main (lines 1549-1566) did so
                   \* far, in order

vars == <<pc, tz, nfiles, nlines, line, message_data, daily_usage, msg_count,
          usage_data, read, first, repeated, derived, failed, at_open,
          dailyData, minYear, maxYear, currentView, currentYear, currentMonth,
          shown, helpOpen, protipHidden, args, effects>>

\* the line carries a measurement (spec 4.1): a well-formed record of an
\* assistant response with a non-empty usage block, a non-empty id and a
\* non-empty timestamp that parses
Qualifying(l) ==
    /\ l.json = "object" /\ l.message = "object"
    /\ l.type = "assistant"
    /\ l.usage = "object" /\ DOMAIN l.counters # {}
    /\ l.id_kind = "str" /\ l.id # ""
    /\ l.timestamp.text = "iso"

NoLine == [Payload EXCEPT !.json = "none"]

\* no page has been generated yet
NoPage ==
    /\ dailyData = <<>>
    /\ minYear = 0 /\ maxYear = 0
    /\ currentView = "" /\ currentYear = 0 /\ currentMonth = 0
    /\ shown = <<>>
    /\ helpOpen = FALSE /\ protipHidden = FALSE

\* a run with no flag (lines 1485-1515: every flag is a store_true)
NoArgs == [json |-> FALSE, no_open |-> FALSE, quiet |-> FALSE]

\* the state when main calls parse_jsonl_files, for a run whose UTC offset is
\* one of `offsets`
InitWith(offsets) ==
    /\ pc = "files"
    /\ tz \in offsets
    /\ nfiles = 0
    /\ nlines = 0
    /\ line = NoLine
    /\ message_data = <<>>
    /\ daily_usage = <<>>
    /\ msg_count = 0
    /\ usage_data = <<>>
    /\ read = {}
    /\ first = <<>>
    /\ repeated = FALSE
    /\ derived = None
    /\ failed = 0
    /\ at_open = <<>>
    /\ NoPage
    /\ args = NoArgs
    /\ effects = <<>>

Init == InitWith(TzOffsets)

results == <<daily_usage, msg_count, usage_data>>
history == <<read, first, repeated, derived>>
fileio  == <<failed, at_open>>
modal   == <<helpOpen, protipHidden>>
page    == <<dailyData, minYear, maxYear, currentView, currentYear, currentMonth,
             shown, modal>>
cli     == <<args, effects>>

\* line 57: open(filepath) succeeds
OpenFile ==
    /\ pc = "files" /\ nfiles < MaxFiles
    /\ nfiles' = nfiles + 1
    /\ pc' = "lines"
    /\ UNCHANGED <<tz, nlines, line, message_data, results, history>>

\* line 57: open(filepath) raises; lines 115-116 swallow it
OpenFails ==
    /\ pc = "files" /\ nfiles < MaxFiles
    /\ nfiles' = nfiles + 1
    /\ UNCHANGED <<pc, tz, nlines, line, message_data, results, history>>

\* lines 58-114: the file yields the line l and the loop body runs on it
ReadLine(l) ==
    /\ pc = "lines" /\ nlines < MaxLines
    /\ LET r == process_line(message_data, l, tz)
       IN  /\ message_data' = r.message_data
           /\ pc' = IF r.status = "raise" THEN "files" ELSE "lines"
           /\ derived' = r.date_key
    /\ line' = l
    /\ nlines' = nlines + 1
    /\ read' = IF Qualifying(l) THEN read \cup {l} ELSE read
    /\ first' = IF Qualifying(l) /\ l.id \notin Keys(first)
                THEN Put(first, l.id, l) ELSE first
    /\ repeated' = (l \in read)
    /\ UNCHANGED <<tz, nfiles, results>>

\* line 58: reading the next line raises (I/O error, undecodable bytes)
ReadFails ==
    /\ pc = "lines"
    /\ pc' = "files"
    /\ UNCHANGED <<tz, nfiles, nlines, line, message_data, results, history>>

\* the daily totals are computed at the end of each file
EndOfFile_aggregating ==
    /\ pc = "lines"
    /\ pc' = "files"
    /\ daily_usage' = aggregate(message_data, <<>>)
    /\ UNCHANGED <<tz, nfiles, nlines, line, message_data, msg_count,
                   usage_data, history>>

\* line 58: end of the file
EndOfFile ==
    /\ pc = "lines"
    /\ pc' = "files"
    /\ UNCHANGED <<tz, nfiles, nlines, line, message_data, results, history>>

\* line 55: the list of files is exhausted
EndOfFiles ==
    /\ pc = "files"
    /\ pc' = "aggregate"
    /\ UNCHANGED <<tz, nfiles, nlines, line, message_data, results, history>>

\* lines 118-134; no handler is around the loop of lines 127-132, so an
\* error there leaves parse_jsonl_files and ends the run ("raised")
Aggregate ==
    /\ pc = "aggregate"
    /\ IF \E i \in DOMAIN message_data : add_raises(message_data[i].value)
       THEN /\ pc' = "raised"
            /\ UNCHANGED <<daily_usage, msg_count>>
       ELSE /\ daily_usage' = aggregate(message_data, <<>>)
            /\ msg_count' = Len(message_data)
            /\ pc' = "parsed"
    /\ UNCHANGED <<tz, nfiles, nlines, line, message_data, usage_data, history>>

\* main, line 1547
BuildUsageData ==
    /\ pc = "parsed"
    /\ usage_data' = build_usage_data(daily_usage, msg_count)
    /\ pc' = "built"
    /\ UNCHANGED <<tz, nfiles, nlines, line, message_data, daily_usage, msg_count,
                   history>>

\* the run over the lines of `Lines`; the history of file failures is not kept
Next ==
    \/ OpenFile /\ UNCHANGED <<fileio, page, cli>>
    \/ OpenFails /\ UNCHANGED <<fileio, page, cli>>
    \/ \E l \in Lines : ReadLine(l) /\ UNCHANGED <<fileio, page, cli>>
    \/ ReadFails /\ UNCHANGED <<fileio, page, cli>>
    \/ EndOfFile /\ UNCHANGED <<fileio, page, cli>>
    \/ EndOfFiles /\ UNCHANGED <<fileio, page, cli>>
    \/ Aggregate /\ UNCHANGED <<fileio, page, cli>>
    \/ BuildUsageData /\ UNCHANGED <<fileio, page, cli>>

Spec == Init /\ [][Next]_vars

\* the lines of the runs that keep the history of file failures: the
\* measurements of one instant, and two lines that carry none
FileLines ==
    {Record(i, T1, u) : i \in Ids, u \in Usages}
        \cup {[Payload EXCEPT !.json = "invalid"], [Payload EXCEPT !.json = "value"]}

\* the same run, with the history of the failures of open (line 57) and of the
\* read of a line (line 58), both caught by lines 115-116
NextFiles ==
    \/ OpenFile /\ at_open' = message_data /\ UNCHANGED <<failed, page, cli>>
    \/ OpenFails /\ failed' = failed + 1 /\ UNCHANGED <<at_open, page, cli>>
    \/ \E l \in FileLines : ReadLine(l) /\ UNCHANGED <<fileio, page, cli>>
    \/ ReadFails /\ failed' = failed + 1 /\ UNCHANGED <<at_open, page, cli>>
    \/ EndOfFile /\ UNCHANGED <<fileio, page, cli>>
    \/ EndOfFiles /\ UNCHANGED <<fileio, page, cli>>
    \/ Aggregate /\ UNCHANGED <<fileio, page, cli>>
    \/ BuildUsageData /\ UNCHANGED <<fileio, page, cli>>

SpecFiles == Init /\ [][NextFiles]_vars

\* Bound of the runs over dates: lines read in one run.
MaxDateLines == 1

\* instants around the end of a year and of February, early and late in the
\* day, written with each zone suffix; the offsets --tz-offset is given
DateTimestamps ==
    {[text |-> "iso", y |-> ymd[1], mo |-> ymd[2], d |-> ymd[3], h |-> h, zone |-> z] :
        ymd \in {<<2024, 12, 31>>, <<2025, 1, 1>>, <<2024, 2, 29>>, <<2025, 2, 28>>},
        h \in {0, 2, 23}, z \in {"Z", "+00:00", "-08:00", "+09:00"}}

DateOffsets == {-12, -7, 0, 9}

DateLines == {Record("m1", ts, UsageA) : ts \in DateTimestamps}

\* the run over one line, its timestamp and the offset of the run drawn from
\* the sets above
NextDates ==
    \/ OpenFile /\ UNCHANGED <<fileio, page, cli>>
    \/ OpenFails /\ UNCHANGED <<fileio, page, cli>>
    \/ \E l \in DateLines :
           nlines < MaxDateLines /\ ReadLine(l) /\ UNCHANGED <<fileio, page, cli>>
    \/ ReadFails /\ UNCHANGED <<fileio, page, cli>>
    \/ EndOfFile /\ UNCHANGED <<fileio, page, cli>>
    \/ EndOfFiles /\ UNCHANGED <<fileio, page, cli>>
    \/ Aggregate /\ UNCHANGED <<fileio, page, cli>>
    \/ BuildUsageData /\ UNCHANGED <<fileio, page, cli>>

SpecDates == InitWith(DateOffsets) /\ [][NextDates]_vars

\* usage blocks with a counter that is a string: {"input_tokens": 1,
\* "output_tokens": "9"} and {"input_tokens": 3, "output_tokens": "9",
\* "cache_read_input_tokens": 1}
UsageText == [input_tokens |-> 1, output_tokens |-> NotANumber]
UsageText3 == [input_tokens |-> 3, output_tokens |-> NotANumber,
               cache_read_input_tokens |-> 1]

\* the lines of the runs over counters that are no integers
CounterLines ==
    {Record(i, T1, u) : i \in Ids, u \in {UsageA, UsageB, UsageText, UsageText3}}

\* the run over lines whose counters may be no integers
NextCounters ==
    \/ OpenFile /\ UNCHANGED <<fileio, page, cli>>
    \/ OpenFails /\ UNCHANGED <<fileio, page, cli>>
    \/ \E l \in CounterLines : ReadLine(l) /\ UNCHANGED <<fileio, page, cli>>
    \/ ReadFails /\ UNCHANGED <<fileio, page, cli>>
    \/ EndOfFile /\ UNCHANGED <<fileio, page, cli>>
    \/ EndOfFiles /\ UNCHANGED <<fileio, page, cli>>
    \/ Aggregate /\ UNCHANGED <<fileio, page, cli>>
    \/ BuildUsageData /\ UNCHANGED <<fileio, page, cli>>

SpecCounters == Init /\ [][NextCounters]_vars

\* a usage block that is present and not empty, with a counter of zero
UsageZero == [output_tokens |-> 0]

\* the lines of the runs over measurements that count no token
ZeroLines ==
    {Record(i, ts, u) : i \in Ids, ts \in Timestamps, u \in {UsageA, UsageZero}}

\* the run over measurements that may count no token
NextZero ==
    \/ OpenFile /\ UNCHANGED <<fileio, page, cli>>
    \/ OpenFails /\ UNCHANGED <<fileio, page, cli>>
    \/ \E l \in ZeroLines : ReadLine(l) /\ UNCHANGED <<fileio, page, cli>>
    \/ ReadFails /\ UNCHANGED <<fileio, page, cli>>
    \/ EndOfFile /\ UNCHANGED <<fileio, page, cli>>
    \/ EndOfFiles /\ UNCHANGED <<fileio, page, cli>>
    \/ Aggregate /\ UNCHANGED <<fileio, page, cli>>
    \/ BuildUsageData /\ UNCHANGED <<fileio, page, cli>>

SpecZero == Init /\ [][NextZero]_vars

---------------------------------------------------------------------------
(* The generated page: the script of lines 912-1445.  The functions take   *)
(* the globals they read (dailyData, minYear, maxYear, currentYear,        *)
(* currentMonth) as arguments.                                             *)

\* s.startsWith(prefix)
startsWith(str, prefix) ==
    Len(prefix) <= Len(str) /\ SubSeq(str, 1, Len(prefix)) = prefix

RECURSIVE parseInt(_)
\* parseInt of a string of decimal digits
parseInt(str) ==
    IF str = <<>> THEN 0
    ELSE parseInt(SubSeq(str, 1, Len(str) - 1)) * 10 + (CodePoint(str[Len(str)]) - 48)

\* String(n): n >= 0 in decimal
String(n) == Digits(n, 1)

\* the padding of the month is missing
padStart_none(str, width, fill) == str

\* str.padStart(width, fill), fill one character
padStart(str, width, fill) ==
    [i \in 1..(IF Len(str) >= width THEN 0 ELSE width - Len(str)) |-> fill] \o str

\* lines 938-941
getTotal(usage) ==
    usage.input_tokens + usage.output_tokens
        + usage.cache_read_input_tokens + usage.cache_creation_input_tokens

\* the four `result.x += usage.x || 0` of one entry
add_day(result, usage) ==
    [input_tokens |-> result.input_tokens + usage.input_tokens,
     output_tokens |-> result.output_tokens + usage.output_tokens,
     cache_read_input_tokens |->
         result.cache_read_input_tokens + usage.cache_read_input_tokens,
     cache_creation_input_tokens |->
         result.cache_creation_input_tokens + usage.cache_creation_input_tokens]

RECURSIVE sum_entries(_, _)
\* `for (... of Object.entries(dailyData))` adding the entries into result,
\* in the order of the object
sum_entries(entries, result) ==
    IF entries = <<>> THEN result
    ELSE sum_entries(Tail(entries), add_day(result, Head(entries).value))

\* lines 943-955
aggregateByMonth(dd, year, month) ==
    LET prefix == String(year) \o <<"-">> \o padStart(String(month), 2, "0")
    IN  sum_entries(SelectSeq(dd, LAMBDA e : startsWith(e.key, prefix)), ZeroUsage)

\* lines 957-969
aggregateByYear(dd, year) ==
    LET prefix == String(year) \o <<"-">>
    IN  sum_entries(SelectSeq(dd, LAMBDA e : startsWith(e.key, prefix)), ZeroUsage)

\* lines 971-980
aggregateAllTime(dd) == sum_entries(dd, ZeroUsage)

\* Object.keys(dailyData).sort()
sortedKeys(dd) == sorted(Keys(dd))

RECURSIVE peak(_, _)
\* lines 988-996: the loop over Object.entries(dailyData); best is
\* [peakDay, peakAmount]
peak(entries, best) ==
    IF entries = <<>> THEN best
    ELSE LET total == getTotal(Head(entries).value)
         IN  peak(Tail(entries),
                  IF total > best.peakAmount
                  THEN [peakDay |-> Head(entries).key, peakAmount |-> total]
                  ELSE best)

\* the quotient is cut to an integer instead of rounded
Math_floor_div(a, b) == a \div b

\* Math.round(a / b) for a >= 0, b > 0: the nearest integer, a half goes up
Math_round_div(a, b) == (2 * a + b) \div (2 * b)

\* lines 982-1049: what renderAllTime writes
renderAllTime(dd) ==
    LET totals     == aggregateAllTime(dd)
        grandTotal == getTotal(totals)
        dates      == sortedKeys(dd)
        numDays    == Len(dates)
        best       == peak(dd, [peakDay |-> <<>>, peakAmount |-> 0])
    IN  [view |-> "alltime",
         dateRange |-> IF Len(dates) > 0
                       THEN <<dates[1], "to", dates[Len(dates)]>>
                       ELSE <<"No data">>,
         numDays |-> numDays,
         grandTotal |-> grandTotal,
         avgDaily |-> IF numDays > 0 THEN Math_round_div(grandTotal, numDays) ELSE 0,
         peakAmount |-> best.peakAmount,
         peakDay |-> best.peakDay,
         totals |-> totals]

\* the loop of renderYearly stops before December
months_to_november == 1..11

\* line 1059: `for (let m = 1; m <= 12; m++)`
months == 1..12

RECURSIVE year_total(_, _, _, _)
\* lines 1059-1066: yearTotal after the months m..12 have been added to it
year_total(dd, year, m, yearTotal) ==
    IF m \notin months THEN yearTotal
    ELSE year_total(dd, year, m + 1, add_day(yearTotal, aggregateByMonth(dd, year, m)))

\* lines 1051-1106: what renderYearly writes
renderYearly(dd, year, minY, maxY) ==
    LET yearTotal == year_total(dd, year, 1, ZeroUsage)
    IN  [view |-> "yearly",
         nav_current |-> <<year>>,
         prev_disabled |-> year <= minY,
         next_disabled |-> year >= maxY,
         cards |-> [m \in months |->
                       LET monthData == aggregateByMonth(dd, year, m)
                       IN  [monthData |-> monthData,
                            total |-> getTotal(monthData),
                            hasData |-> getTotal(monthData) > 0]],
         yearTotal |-> yearTotal,
         grandTotal |-> getTotal(yearTotal)]

\* lines 1122-1124: new Date(year, month, 0).getDate()
getDaysInMonth(year, month) ==
    IF month = 12 THEN 31
    ELSE DaysFromCivil(year, month + 1, 1) - DaysFromCivil(year, month, 1)

\* `dailyData[dateKey] || {...zeros}`
day_usage(dd, dateKey) == IF dateKey \in Keys(dd) THEN Get(dd, dateKey) ELSE ZeroUsage

RECURSIVE month_total(_, _, _, _, _)
\* lines 1177-1255: monthlyTotals after the days d.. of the month have been
\* added to it
month_total(dd, year, month, d, monthlyTotals) ==
    IF d > getDaysInMonth(year, month) THEN monthlyTotals
    ELSE LET dateKey == String(year) \o <<"-">> \o padStart(String(month), 2, "0")
                            \o <<"-">> \o padStart(String(d), 2, "0")
         IN  month_total(dd, year, month, d + 1,
                         add_day(monthlyTotals, day_usage(dd, dateKey)))

\* lines 1131-1305: what renderMonthly writes (of the grid of days, the
\* totals of the month)
renderMonthly(dd, year, month, minY, maxY) ==
    LET canPrev == year > minY \/ (year = minY /\ month > 1)
        canNext == year < maxY \/ (year = maxY /\ month < 12)
        monthlyTotals == month_total(dd, year, month, 1, ZeroUsage)
    IN  [view |-> "monthly",
         nav_current |-> <<month, year>>,
         prev_disabled |-> ~canPrev,
         next_disabled |-> ~canNext,
         monthlyTotals |-> monthlyTotals,
         grandTotal |-> getTotal(monthlyTotals)]

\* lines 1318-1327: the render of switchView
render(view, dd, year, month, minY, maxY) ==
    CASE view = "alltime" -> renderAllTime(dd)
      [] view = "yearly"  -> renderYearly(dd, year, minY, maxY)
      [] view = "monthly" -> renderMonthly(dd, year, month, minY, maxY)

\* Bounds of the runs of the page: days in the daily totals, and years the
\* monthly view is stepped out of [minYear, maxYear].
MaxDays == 2
MaxYearsOut == 1

\* strftime("%Y-%m-%d") of a date
DateString(y, m, d) ==
    Digits(y, 4) \o <<"-">> \o Digits(m, 2) \o <<"-">> \o Digits(d, 2)

\* days of two years; of 2025, two of January and one of December
PageDates ==
    {DateString(2024, 12, 31), DateString(2025, 1, 1), DateString(2025, 1, 5),
     DateString(2025, 12, 1)}

\* daily totals: 3 and 4 tokens
DayUsages == {UsageA, UsageB}

\* the results of parse_jsonl_files: up to MaxDays days, in any order of
\* insertion
DailyUsages ==
    UNION {{[i \in 1..n |-> [key |-> f[i][1], value |-> f[i][2]]] :
               f \in {g \in [1..n -> PageDates \X DayUsages] :
                         \A i, j \in 1..n : i # j => g[i][1] # g[j][1]}} :
           n \in 0..MaxDays}

\* datetime.now().year and new Date().getMonth() + 1 when the page is made
NowYears == {2026}
NowMonths == 1..12

\* main has called build_usage_data on some result of parse_jsonl_files (the
\* table, local to parse_jsonl_files, is gone); one message per day
InitPage ==
    /\ pc = "built"
    /\ tz = 0
    /\ nfiles = 0 /\ nlines = 0 /\ line = NoLine
    /\ message_data = <<>>
    /\ daily_usage \in DailyUsages
    /\ msg_count = Len(daily_usage)
    /\ usage_data = build_usage_data(daily_usage, msg_count)
    /\ read = {} /\ first = <<>> /\ repeated = FALSE /\ derived = None
    /\ failed = 0 /\ at_open = <<>>
    /\ NoPage
    /\ args = NoArgs /\ effects = <<>>

parsing == <<tz, nfiles, nlines, line, message_data, results, history, fileio>>

\* generate_html (lines 176-196) and the load of the page it wrote: lines
\* 913-928 and the initial switchView('monthly') of line 1364
LoadPage ==
    /\ pc = "built"
    /\ pc' = "page"
    /\ \E nowYear \in NowYears, nowMonth \in NowMonths :
           LET date_range == usage_data.date_range
               hasRange   == date_range.start # None /\ date_range.start # <<>>
               min_year   == IF hasRange
                             THEN parseInt(SubSeq(date_range.start, 1, 4))
                             ELSE nowYear
               max_year   == IF hasRange
                             THEN parseInt(SubSeq(date_range.end, 1, 4))
                             ELSE nowYear
               dd         == usage_data.daily_usage
               dates      == sortedKeys(dd)
               latestDate == dates[Len(dates)]
               year       == IF Len(dates) > 0
                             THEN parseInt(SubSeq(latestDate, 1, 4)) ELSE max_year
               month      == IF Len(dates) > 0
                             THEN parseInt(SubSeq(latestDate, 6, 7)) ELSE nowMonth
           IN  /\ dailyData' = dd
               /\ minYear' = min_year
               /\ maxYear' = max_year
               /\ currentView' = "monthly"
               /\ currentYear' = year
               /\ currentMonth' = month
               /\ shown' = renderMonthly(dd, year, month, min_year, max_year)
    /\ UNCHANGED <<parsing, modal, cli>>

\* lines 1308-1328, on a click on a tab (line 1332)
switchView(view) ==
    /\ pc = "page"
    /\ currentView' = view
    /\ shown' = render(view, dailyData, currentYear, currentMonth, minYear, maxYear)
    /\ UNCHANGED <<pc, parsing, modal, cli, dailyData, minYear, maxYear,
                   currentYear, currentMonth>>

\* the step back from January stays in the same year
monthly_prev_same_year(year, month) ==
    IF month - 1 < 1 THEN <<year, 12>> ELSE <<year, month - 1>>

\* lines 1340-1344: the month before month `month` of `year`, as <<year, month>>
monthly_prev(year, month) ==
    IF month - 1 < 1 THEN <<year - 1, 12>> ELSE <<year, month - 1>>

\* lines 1354-1358: the month after month `month` of `year`, as <<year, month>>
monthly_next(year, month) ==
    IF month + 1 > 12 THEN <<year + 1, 1>> ELSE <<year, month + 1>>

\* lines 1335-1347: the click handler of nav-prev
NavPrev ==
    /\ pc = "page"
    /\ currentView = "monthly" /\ currentMonth = 1
           => currentYear > minYear - MaxYearsOut
    /\ IF currentView = "yearly" /\ currentYear > minYear
       THEN /\ currentYear' = currentYear - 1
            /\ currentMonth' = currentMonth
            /\ shown' = renderYearly(dailyData, currentYear - 1, minYear, maxYear)
       ELSE IF currentView = "monthly"
       THEN LET month == monthly_prev(currentYear, currentMonth)[2]
                year  == monthly_prev(currentYear, currentMonth)[1]
            IN  /\ currentMonth' = month
                /\ currentYear' = year
                /\ shown' = renderMonthly(dailyData, year, month, minYear, maxYear)
       ELSE UNCHANGED <<currentYear, currentMonth, shown>>
    /\ UNCHANGED <<pc, parsing, modal, cli, dailyData, minYear, maxYear, currentView>>

\* lines 1349-1361: the click handler of nav-next
NavNext ==
    /\ pc = "page"
    /\ currentView = "monthly" /\ currentMonth = 12
           => currentYear < maxYear + MaxYearsOut
    /\ IF currentView = "yearly" /\ currentYear < maxYear
       THEN /\ currentYear' = currentYear + 1
            /\ currentMonth' = currentMonth
            /\ shown' = renderYearly(dailyData, currentYear + 1, minYear, maxYear)
       ELSE IF currentView = "monthly"
       THEN LET month == monthly_next(currentYear, currentMonth)[2]
                year  == monthly_next(currentYear, currentMonth)[1]
            IN  /\ currentMonth' = month
                /\ currentYear' = year
                /\ shown' = renderMonthly(dailyData, year, month, minYear, maxYear)
       ELSE UNCHANGED <<currentYear, currentMonth, shown>>
    /\ UNCHANGED <<pc, parsing, modal, cli, dailyData, minYear, maxYear, currentView>>

\* lines 1112-1118: a click on the card of month m in the grid of the yearly
\* view (only the cards with data have the handler); its data-year is the
\* year the grid was rendered for
MonthCardClick(m) ==
    /\ pc = "page"
    /\ currentView = "yearly" /\ shown.cards[m].hasData
    /\ currentMonth' = m
    /\ currentYear' = shown.nav_current[1]
    /\ currentView' = "monthly"
    /\ shown' = renderMonthly(dailyData, shown.nav_current[1], m, minYear, maxYear)
    /\ UNCHANGED <<pc, parsing, modal, cli, dailyData, minYear, maxYear>>

NextPage ==
    \/ LoadPage
    \/ \E view \in {"monthly", "yearly", "alltime"} : switchView(view)
    \/ NavPrev
    \/ NavNext
    \/ \E m \in months : MonthCardClick(m)

SpecPage == InitPage /\ [][NextPage]_vars

---------------------------------------------------------------------------
(* The keyboard shortcuts and the help modal (lines 1366-1441), together   *)
(* with the clicks above, over daily totals whose days all have one usage  *)
(* and were inserted in the order of their dates.                          *)

\* lines 1370-1373
showHelp ==
    /\ helpOpen' = TRUE
    /\ protipHidden' = TRUE
    /\ UNCHANGED <<pc, parsing, cli, dailyData, minYear, maxYear, currentView,
                   currentYear, currentMonth, shown>>

\* lines 1375-1377
hideHelp ==
    /\ helpOpen' = FALSE
    /\ UNCHANGED <<pc, parsing, cli, dailyData, minYear, maxYear, currentView,
                   currentYear, currentMonth, shown, protipHidden>>

\* lines 1387-1396: back to the latest month with data
goToCurrentMonth ==
    LET dates      == sortedKeys(dailyData)
        latestDate == dates[Len(dates)]
        year       == IF Len(dates) > 0
                      THEN parseInt(SubSeq(latestDate, 1, 4)) ELSE currentYear
        month      == IF Len(dates) > 0
                      THEN parseInt(SubSeq(latestDate, 6, 7)) ELSE currentMonth
    IN  /\ currentYear' = year
        /\ currentMonth' = month
        /\ currentView' = "monthly"
        /\ shown' = renderMonthly(dailyData, year, month, minYear, maxYear)
        /\ UNCHANGED <<pc, parsing, modal, cli, dailyData, minYear, maxYear>>

\* the keys pressed: the ten the handler knows, Escape, and one it ignores
KeyNames == {"Escape", "?", "1", "2", "3", "h", "k", "j", "l", "c", "x"}

\* the handler goes on to the switch while the help modal is open
KeyDown_through_modal(key) ==
    /\ pc = "page"
    /\ IF key = "Escape" THEN hideHelp
       ELSE CASE key = "?" -> showHelp
              [] key = "1" -> switchView("monthly")
              [] key = "2" -> switchView("yearly")
              [] key = "3" -> switchView("alltime")
              [] key \in {"h", "k"} -> NavPrev
              [] key \in {"j", "l"} -> NavNext
              [] key = "c" -> goToCurrentMonth
              [] OTHER -> UNCHANGED vars

\* lines 1398-1436: the keydown handler of the document (the page has no
\* input and no textarea, so the return of line 1400 is never taken);
\* navigatePrev and navigateNext (lines 1379-1385) call click() on the
\* arrows, which runs their click handlers
KeyDown(key) ==
    /\ pc = "page"
    /\ IF key = "Escape" THEN hideHelp
       ELSE IF helpOpen THEN UNCHANGED vars
       ELSE CASE key = "?" -> showHelp
              [] key = "1" -> switchView("monthly")
              [] key = "2" -> switchView("yearly")
              [] key = "3" -> switchView("alltime")
              [] key \in {"h", "k"} -> NavPrev
              [] key \in {"j", "l"} -> NavNext
              [] key = "c" -> goToCurrentMonth
              [] OTHER -> UNCHANGED vars

\* lines 1438-1441: a click on the overlay of the open modal, outside the box
OverlayClick ==
    /\ pc = "page" /\ helpOpen
    /\ hideHelp

\* lines 414-429: the overlay of the open modal covers the whole window, so
\* while it is open no click reaches a tab, an arrow or a card
Clickable == ~helpOpen

InitKeys ==
    /\ InitPage
    /\ \A i \in DOMAIN daily_usage : daily_usage[i].value = UsageA
    /\ \A i \in 1..(Len(daily_usage) - 1) :
           StrLess(daily_usage[i].key, daily_usage[i + 1].key)

NextKeys ==
    \/ LoadPage
    \/ \E view \in {"monthly", "yearly", "alltime"} : Clickable /\ switchView(view)
    \/ Clickable /\ NavPrev
    \/ Clickable /\ NavNext
    \/ \E m \in months : Clickable /\ MonthCardClick(m)
    \/ \E key \in KeyNames : KeyDown(key)
    \/ OverlayClick

SpecKeys == InitKeys /\ [][NextKeys]_vars

---------------------------------------------------------------------------
(* The tail of main (lines 1549-1566), from the return of build_usage_data *)
(* on: what the run prints, writes and launches under its flags.  An       *)
(* effect is [op, data]; generate_html is a function of usage_data alone,  *)
(* so the page written stands as the usage_data it was generated from.     *)

Flags == [json : BOOLEAN, no_open : BOOLEAN, quiet : BOOLEAN]

Effect(op, data) == [op |-> op, data |-> data]

\* lines 1554-1555, 1562-1563: a progress message, unless --quiet
progress(text) == IF args.quiet THEN <<>> ELSE <<Effect("print", text)>>

InitMain ==
    /\ pc = "built"
    /\ tz = 0
    /\ nfiles = 0 /\ nlines = 0 /\ line = NoLine
    /\ message_data = <<>>
    /\ daily_usage \in DailyUsages
    /\ msg_count = Len(daily_usage)
    /\ usage_data = build_usage_data(daily_usage, msg_count)
    /\ read = {} /\ first = <<>> /\ repeated = FALSE /\ derived = None
    /\ failed = 0 /\ at_open = <<>>
    /\ NoPage
    /\ args \in Flags /\ effects = <<>>

\* the print of line 1551 is not followed by the return of line 1552
PrintJson_no_return ==
    /\ pc = "built" /\ args.json
    /\ effects' = effects \o <<Effect("print_json", usage_data)>>
                       \o progress("Generating interactive HTML...")
                       \o <<Effect("write_html", usage_data)>>
                       \o progress("Saved to")
    /\ pc' = "written"
    /\ UNCHANGED <<parsing, page, args>>

\* lines 1549-1552: --json prints the canonical structure and returns
PrintJson ==
    /\ pc = "built" /\ args.json
    /\ effects' = Append(effects, Effect("print_json", usage_data))
    /\ pc' = "done"
    /\ UNCHANGED <<parsing, page, args>>

\* lines 1554-1563: the page is generated and written to args.output
WriteHtml ==
    /\ pc = "built" /\ ~args.json
    /\ effects' = effects \o progress("Generating interactive HTML...")
                       \o <<Effect("write_html", usage_data)>>
                       \o progress("Saved to")
    /\ pc' = "written"
    /\ UNCHANGED <<parsing, page, args>>

\* lines 1565-1566: without --no-open the page is handed to `open`
OpenBrowser ==
    /\ pc = "written" /\ ~args.no_open
    /\ effects' = Append(effects, Effect("open", "output"))
    /\ pc' = "done"
    /\ UNCHANGED <<parsing, page, args>>

\* line 1565: --no-open, main returns after the write
ReturnNoOpen ==
    /\ pc = "written" /\ args.no_open
    /\ pc' = "done"
    /\ UNCHANGED <<parsing, page, cli>>

NextMain ==
    \/ PrintJson
    \/ WriteHtml
    \/ OpenBrowser
    \/ ReturnNoOpen

SpecMain == InitMain /\ [][NextMain]_vars

---------------------------------------------------------------------------
(* What the input read so far says, independently of the table.            *)

\* <<field of a table entry, key of the usage block>>
Counters == {<<"input", "input_tokens">>, <<"output", "output_tokens">>,
             <<"cache_read", "cache_read_input_tokens">>,
             <<"cache_create", "cache_creation_input_tokens">>}

\* the value a measurement carries for a counter: 0 when the block lacks it
Emitted(l, k) == IF k \in DOMAIN l.counters THEN l.counters[k] ELSE 0

IdsRead == {l.id : l \in read}

MeasurementsOf(i) == {l \in read : l.id = i}

MaxOf(S) == CHOOSE x \in S : \A y \in S : y <= x

ScanOver == pc \in {"parsed", "built"}

---------------------------------------------------------------------------
\* C1: the reconciliation table holds exactly one entry per distinct message
\* id among the measurements read, however often each id was emitted, and the
\* count parse_jsonl_files returns is the number of distinct ids.
C1_OneEntryPerId ==
    /\ Keys(message_data) = IdsRead
    /\ Len(message_data) = Cardinality(IdsRead)
    /\ ScanOver => msg_count = Cardinality(IdsRead)

\* two ids, one of them emitted with at least two different measurements
C1_Witness ==
    /\ pc = "parsed" /\ nfiles = MaxFiles
    /\ Cardinality(IdsRead) = 2 /\ msg_count = 2
    /\ \E i \in IdsRead : Cardinality(MeasurementsOf(i)) >= 2

\* C2: each of the four resolved counters of a message id is the maximum of
\* that counter over all measurements read for the id, each counter on its
\* own, never the sum.
C2_MaxPerCounter ==
    \A i \in Keys(message_data) :
        /\ i \in IdsRead
        /\ \A c \in Counters :
               Get(message_data, i)[c[1]]
                   = MaxOf({Emitted(l, c[2]) : l \in MeasurementsOf(i)})

\* scenario A: input comes from one measurement, output from another
C2_Witness ==
    /\ pc = "parsed"
    /\ \E i \in Keys(message_data) : \E l1, l2 \in MeasurementsOf(i) :
           /\ Emitted(l1, "input_tokens") > Emitted(l2, "input_tokens")
           /\ Emitted(l2, "output_tokens") > Emitted(l1, "output_tokens")
           /\ Get(message_data, i).input = Emitted(l1, "input_tokens")
           /\ Get(message_data, i).output = Emitted(l2, "output_tokens")

\* C3: the date of a resolved event is the day of the first measurement read
\* for its id, whatever the days of the later measurements of that id.
C3_DateOfFirst ==
    \A i \in Keys(message_data) :
        /\ i \in Keys(first)
        /\ Get(message_data, i).date = date_key(Get(first, i).timestamp, tz)

\* scenario E: a later measurement of the id falls on another day
C3_Witness ==
    /\ pc = "parsed"
    /\ \E i \in Keys(message_data) : \E l \in MeasurementsOf(i) :
           /\ l # Get(first, i)
           /\ date_key(l.timestamp, tz) # Get(message_data, i).date

---------------------------------------------------------------------------
RECURSIVE Orderings(_)
\* the orderings of a finite set: its elements in a sequence, each once
Orderings(S) ==
    IF S = {} THEN {<<>>}
    ELSE UNION {{<<x>> \o o : o \in Orderings(S \ {x})} : x \in S}

RECURSIVE FeedAll(_, _, _)
\* the table after the loop body has run on each line of a sequence
FeedAll(ls, md, tzo) ==
    IF ls = <<>> THEN md
    ELSE FeedAll(Tail(ls), process_line(md, Head(ls), tzo).message_data, tzo)

CountersOf(entry) == [c \in Counters |-> entry[c[1]]]

RECURSIVE SumFn(_, _)
\* the sum of f over the finite set S
SumFn(f, S) ==
    IF S = {} THEN 0
    ELSE LET x == CHOOSE y \in S : TRUE IN f[x] + SumFn(f, S \ {x})

\* a Python dict as a mapping, its order forgotten (dict equality)
AsMap(d) == [k \in Keys(d) |-> Get(d, k)]

\* C4: the resolved counters of a message id are the same for every ordering
\* of its measurements: once the scan is over, feeding them in any order gives
\* the counters the run itself produced.
C4_OrderIndependent ==
    pc = "parsed" =>
        \A i \in Keys(message_data) :
            \A o \in Orderings(MeasurementsOf(i)) :
                /\ i \in Keys(FeedAll(o, <<>>, tz))
                /\ CountersOf(Get(FeedAll(o, <<>>, tz), i))
                       = CountersOf(Get(message_data, i))

\* an id with three measurements, two of them with different usage blocks
C4_Witness ==
    /\ pc = "parsed"
    /\ \E i \in Keys(message_data) :
           /\ Cardinality(MeasurementsOf(i)) >= 3
           /\ \E l1, l2 \in MeasurementsOf(i) : l1.counters # l2.counters

\* C5: reading a measurement that was read before (in this or an earlier
\* file) changes nothing: the entries with their counters and dates, the
\* number of entries and the daily totals computed from the table stay.
C5_RepeatChangesNothing ==
    [][(pc = "lines" /\ nlines' = nlines + 1 /\ line' \in read)
       => /\ Keys(message_data') = Keys(message_data)
          /\ \A i \in Keys(message_data) :
                 Get(message_data', i) = Get(message_data, i)
          /\ Len(message_data') = Len(message_data)
          /\ aggregate(message_data', <<>>) = aggregate(message_data, <<>>)]_vars

\* the run ended after a measurement was read a second time, not right
\* after the first time
C5_Witness ==
    /\ pc = "built" /\ repeated /\ line \in read
    /\ Cardinality(read) >= 2

\* what C6 lets the result depend on: the ids, the maximum of each counter of
\* each id, and the first measurement of each id
Abstraction ==
    [ids    |-> IdsRead,
     maxima |-> [i \in IdsRead |->
                    [k \in UsageKeys |-> MaxOf({Emitted(l, k) : l \in MeasurementsOf(i)})]],
     firsts |-> AsMap(first)]

\* the daily totals as a function of that abstraction and the zone
DailyOf(abs, tzo) ==
    LET day(i) == date_key(abs.firsts[i].timestamp, tzo)
        days   == {day(i) : i \in abs.ids}
    IN  [d \in days |->
            [k \in UsageKeys |->
                SumFn([i \in abs.ids |-> abs.maxima[i][k]],
                      {i \in abs.ids : day(i) = d})]]

\* C6: the daily totals parse_jsonl_files returns are a function of the set
\* of ids, the per-counter maxima and the first measurement of each id: runs
\* that agree on these return the same daily_usage.
C6_DailyDependsOnlyOn ==
    pc = "parsed" =>
        /\ DOMAIN first = 1..Cardinality(IdsRead) /\ Keys(first) = IdsRead
        /\ AsMap(daily_usage) = DailyOf(Abstraction, tz)

\* a repeated emission, and a later emission of another day than the first
C6_Witness ==
    /\ pc = "parsed" /\ nlines > Cardinality(read)
    /\ \E i \in IdsRead : \E l \in MeasurementsOf(i) :
           date_key(l.timestamp, tz) # date_key(Get(first, i).timestamp, tz)

\* the resolved events of a day
EventsOn(d) == {i \in Keys(message_data) : Get(message_data, i).date = d}

\* C7: daily_usage has one entry per day that some resolved event has, no
\* other, and each of its four totals is the sum of that counter over the
\* resolved events of the day.
C7_DailyIsSumOfEvents ==
    ScanOver =>
        /\ Len(daily_usage) = Cardinality(Keys(daily_usage))
        /\ Keys(daily_usage) = {Get(message_data, i).date : i \in Keys(message_data)}
        /\ \A d \in Keys(daily_usage) : \A c \in Counters :
               Get(daily_usage, d)[c[2]]
                   = SumFn([i \in EventsOn(d) |-> Get(message_data, i)[c[1]]],
                           EventsOn(d))

\* a day with two events, each with a non-zero cache_creation counter
C7_Witness ==
    /\ pc = "parsed"
    /\ \E d \in Keys(daily_usage) :
           /\ Cardinality(EventsOn(d)) = 2
           /\ \A i \in EventsOn(d) : Get(message_data, i).cache_create > 0

\* C8: each total build_usage_data reports is the sum of the counter over the
\* days of daily_usage and equals its sum over the resolved events, and
\* total_tokens is the sum of the four totals.
C8_Conservation ==
    pc = "built" =>
        /\ \A c \in Counters :
               /\ usage_data.totals[c[2]]
                      = SumFn([d \in Keys(daily_usage) |-> Get(daily_usage, d)[c[2]]],
                              Keys(daily_usage))
               /\ usage_data.totals[c[2]]
                      = SumFn([i \in Keys(message_data) |-> Get(message_data, i)[c[1]]],
                              Keys(message_data))
        /\ usage_data.totals.total_tokens
               = SumFn([c \in Counters |-> usage_data.totals[c[2]]], Counters)

\* two events of one day and non-zero totals
C8_Witness ==
    /\ pc = "built"
    /\ Len(message_data) = 2 /\ Len(daily_usage) = 1
    /\ \A c \in Counters : usage_data.totals[c[2]] > 0

---------------------------------------------------------------------------
\* the step just taken read one more line of the current file
LineRead == pc = "lines" /\ nlines' = nlines + 1

\* C9: a line that is no qualifying record (no valid JSON, valid JSON of the
\* wrong shape or type, or lacking a required field) leaves the table as it
\* is, and the scan goes on with the next line of the same file.
C9_BadLineSkipped ==
    [][(LineRead /\ ~Qualifying(line'))
       => (message_data' = message_data /\ pc' = "lines")]_vars

\* a record (a JSON object whose message, if any, is an object) that reaches
\* the timestamp parse of lines 77-84 with a text that does not parse; a line
\* that is no such record is a line of the wrong shape, the case of C9
BadTimestampLine(l) ==
    /\ l.json = "object" /\ l.message # "value"
    /\ l.timestamp.text = "garbage"

\* C10: a line whose timestamp does not parse yields no measurement: it
\* creates no entry, changes no entry, and the scan goes on with the next
\* line of the same file.
C10_BadTimestampSkipped ==
    [][(LineRead /\ BadTimestampLine(line'))
       => (message_data' = message_data /\ pc' = "lines")]_vars

\* such a line was read while its id had an entry with smaller counters, and
\* the file is still being read
C10_Witness ==
    /\ pc = "lines" /\ BadTimestampLine(line)
    /\ line.id \in Keys(message_data)
    /\ Get(message_data, line.id).input < Emitted(line, "input_tokens")
    /\ Get(message_data, line.id).date # date_key(T1, tz)

---------------------------------------------------------------------------
\* a step in which the open of a file, or the read of one of its lines, raises
FileFails == failed' = failed + 1

\* C11: when the open of a file or the read of one of its lines fails, the
\* file is skipped entirely: the table is left as it was before the file (no
\* line of the file contributes), and the scan goes on with the remaining
\* files.
C11_FailedFileSkipped ==
    [][FileFails =>
          /\ message_data' = (IF pc = "lines" THEN at_open ELSE message_data)
          /\ pc' = "files"]_vars

\* C12: no error is fatal: whatever the files hold (counters that are no
\* integers included), parse_jsonl_files followed by build_usage_data runs to
\* completion, the run never ends by an error.
C12_NeverAborts == pc # "raised"

---------------------------------------------------------------------------
\* the five conditions of spec 4.1 on a line: it is a structured record, of
\* type "assistant", with a non-empty usage block, a non-empty message id and
\* a non-empty timestamp
FiveConditions(l) ==
    /\ l.json = "object"
    /\ l.type = "assistant"
    /\ l.message = "object" /\ l.usage = "object" /\ DOMAIN l.counters # {}
    /\ l.message = "object" /\ l.id_kind = "str" /\ l.id # ""
    /\ l.timestamp.text # ""

\* C13: a line contributes a measurement only if all five conditions hold: a
\* line that fails one of them creates no resolved event and updates none.
C13_OnlyQualifyingContribute ==
    [][(LineRead /\ ~FiveConditions(line')) => message_data' = message_data]_vars

\* a line failing one of the conditions was read, and it would have created
\* the entry of its id, or raised a counter of it, had it been taken
C13_Witness ==
    /\ nlines > 0 /\ ~FiveConditions(line)
    /\ \/ line.id \notin Keys(message_data)
       \/ Get(message_data, line.id).input < Emitted(line, "input_tokens")

---------------------------------------------------------------------------
\* the usage block of the line is not empty and lacks one of the four counters
LacksCounter(l) == Qualifying(l) /\ DOMAIN l.counters # UsageKeys

\* C14: a qualifying line whose usage block lacks some of the four counters
\* is not skipped: it yields a measurement in which each absent counter is 0
\* and each present counter has its value (the entry of a new id is that
\* measurement, the entry of a known id is raised to it).
C14_AbsentCountersAreZero ==
    [][(LineRead /\ LacksCounter(line'))
       => /\ line'.id \in Keys(message_data')
          /\ \A c \in Counters :
                 LET m == IF c[2] \in DOMAIN line'.counters
                          THEN line'.counters[c[2]] ELSE 0
                 IN  Get(message_data', line'.id)[c[1]]
                         = IF line'.id \in Keys(message_data)
                           THEN MaxOf({m, Get(message_data, line'.id)[c[1]]})
                           ELSE m]_vars

\* such a line was the first of its id: the entry holds 0 for a counter the
\* line lacks and the value of a counter it has
C14_Witness ==
    /\ pc = "lines" /\ LacksCounter(line)
    /\ Cardinality(MeasurementsOf(line.id)) = 1
    /\ \E c \in Counters :
           c[2] \notin DOMAIN line.counters /\ Get(message_data, line.id)[c[1]] = 0
    /\ \E c \in Counters :
           /\ c[2] \in DOMAIN line.counters
           /\ Get(message_data, line.id)[c[1]] = line.counters[c[2]]
           /\ line.counters[c[2]] > 0

---------------------------------------------------------------------------
(* The calendar, day by day.                                               *)

LeapYear(y) == y % 4 = 0 /\ (y % 100 # 0 \/ y % 400 = 0)

DaysIn(y, m) ==
    IF m = 2 THEN (IF LeapYear(y) THEN 29 ELSE 28)
    ELSE IF m \in {4, 6, 9, 11} THEN 30 ELSE 31

DayAfter(ymd) ==
    IF ymd[3] < DaysIn(ymd[1], ymd[2]) THEN <<ymd[1], ymd[2], ymd[3] + 1>>
    ELSE IF ymd[2] < 12 THEN <<ymd[1], ymd[2] + 1, 1>>
    ELSE <<ymd[1] + 1, 1, 1>>

DayBefore(ymd) ==
    IF ymd[3] > 1 THEN <<ymd[1], ymd[2], ymd[3] - 1>>
    ELSE IF ymd[2] > 1 THEN <<ymd[1], ymd[2] - 1, DaysIn(ymd[1], ymd[2] - 1)>>
    ELSE <<ymd[1] - 1, 12, 31>>

\* hours east of UTC of a zone suffix; "Z" is UTC
ZoneHours(zone) ==
    CASE zone = "Z" -> 0
      [] zone = "+00:00" -> 0
      [] zone = "-08:00" -> -8
      [] zone = "+09:00" -> 9

\* YYYY-MM-DD of a date of the years 1000..9999
IsoDate(ymd) ==
    LET digit(n) == Digit[(n % 10) + 1]
    IN  <<digit(ymd[1] \div 1000), digit(ymd[1] \div 100), digit(ymd[1] \div 10),
          digit(ymd[1]), "-", digit(ymd[2] \div 10), digit(ymd[2]), "-",
          digit(ymd[3] \div 10), digit(ymd[3])>>

\* the calendar date of the instant ts on a clock `offset` hours east of UTC
\* (the clock of the instant and that clock are less than two days apart)
LocalDate(ts, offset) ==
    LET hour == ts.h - ZoneHours(ts.zone) + offset
        day  == <<ts.y, ts.mo, ts.d>>
    IN  IsoDate(IF hour < -24 THEN DayBefore(DayBefore(day))
                ELSE IF hour < 0 THEN DayBefore(day)
                ELSE IF hour < 24 THEN day
                ELSE IF hour < 48 THEN DayAfter(day)
                ELSE DayAfter(DayAfter(day)))

\* the same instant written with the other of the suffixes "Z" and "+00:00"
Respelled(ts) ==
    IF ts.zone = "Z" THEN [ts EXCEPT !.zone = "+00:00"]
    ELSE IF ts.zone = "+00:00" THEN [ts EXCEPT !.zone = "Z"]
    ELSE ts

\* C15: the day key of a measurement is the calendar date of its instant
\* shifted by the UTC offset of the run; "Z" is treated like "+00:00", so the
\* same instant written either way has the same day key; offset -7 and
\* 2025-01-01T02:00:00Z give 2024-12-31.
C15_DayKeyIsShiftedDate ==
    \A i \in DOMAIN message_data :
        LET ts  == Get(first, message_data[i].key).timestamp
            key == message_data[i].value.date
        IN  /\ key = LocalDate(ts, tz)
            /\ key = date_key(Respelled(ts), tz)
            /\ (tz = -7 /\ ts = T1)
                   => key = <<"2", "0", "2", "4", "-", "1", "2", "-", "3", "1">>

\* the example of the claim: 2025-01-01T02:00:00Z read by a run of offset -7
C15_Witness ==
    /\ pc = "parsed" /\ tz = -7
    /\ Len(message_data) = 1 /\ Get(first, "m1").timestamp = T1
    /\ message_data[1].value.date
           = <<"2", "0", "2", "4", "-", "1", "2", "-", "3", "1">>
    /\ Keys(daily_usage) = {message_data[1].value.date}

---------------------------------------------------------------------------
\* the output structure of a run that found no usage
EmptyOutput ==
    [date_range |-> [start |-> None, end |-> None],
     days_with_data |-> 0,
     unique_messages |-> 0,
     totals |-> [input_tokens |-> 0, output_tokens |-> 0,
                 cache_read_input_tokens |-> 0, cache_creation_input_tokens |-> 0,
                 total_tokens |-> 0],
     daily_usage |-> <<>>]

\* C16: for an empty list of files the output structure has days_with_data 0,
\* unique_messages 0, every total (total_tokens too) 0, an empty daily_usage
\* and a date_range whose start and end are both null.
C16_EmptyFileSet ==
    (pc = "built" /\ nfiles = 0) => usage_data = EmptyOutput

\* the run over no file at all has built its output
C16_Witness ==
    /\ pc = "built" /\ nfiles = 0 /\ nlines = 0
    /\ usage_data.daily_usage = <<>> /\ usage_data.totals.total_tokens = 0

\* C17: when every input file is unreadable (its open or its read raised),
\* the output structure is the one of a run that found no usage: the caller
\* cannot tell the two cases apart.
C17_AllUnreadableIsEmpty ==
    (pc = "built" /\ nfiles > 0 /\ failed = nfiles) => usage_data = EmptyOutput

---------------------------------------------------------------------------
(* What the daily totals of the page say, read off the date keys.          *)

DigitValue(c) == CHOOSE n \in 0..9 : Digit[n + 1] = c

\* year and month of a date key YYYY-MM-DD
YearOf(key) ==
    1000 * DigitValue(key[1]) + 100 * DigitValue(key[2])
        + 10 * DigitValue(key[3]) + DigitValue(key[4])

MonthOf(key) == 10 * DigitValue(key[6]) + DigitValue(key[7])

\* the entries of the daily totals that lie in year y (and month m)
DaysOfYear(y) == {i \in DOMAIN dailyData : YearOf(dailyData[i].key) = y}

DaysOfMonth(y, m) == {i \in DaysOfYear(y) : MonthOf(dailyData[i].key) = m}

YearsPresent == {YearOf(dailyData[i].key) : i \in DOMAIN dailyData}

\* the sum of counter k over the entries I of the daily totals
CounterSum(I, k) == SumFn([i \in DOMAIN dailyData |-> dailyData[i].value[k]], I)

\* C18: monthTotal(year, month) is, for each of the four counters, the sum
\* over exactly the daily entries whose date lies in that year and month, and
\* all four counters are 0 when no entry does.
C18_MonthTotal ==
    (pc = "page" /\ shown.view = "yearly") =>
        \A m \in 1..12 : \A k \in UsageKeys :
            /\ shown.cards[m].monthData[k] = CounterSum(DaysOfMonth(currentYear, m), k)
            /\ DaysOfMonth(currentYear, m) = {} => shown.cards[m].monthData[k] = 0

\* the yearly view of a year with two days in one month, and months with none
C18_Witness ==
    /\ pc = "page" /\ shown.view = "yearly"
    /\ \E m \in 1..12 :
           /\ Cardinality(DaysOfMonth(currentYear, m)) = 2
           /\ shown.cards[m].total = 7
    /\ \E m \in 1..12 : DaysOfMonth(currentYear, m) = {} /\ ~shown.cards[m].hasData

\* C19: the total of a year is the sum, counter by counter, of the totals
\* of its months 1..12 (so it is as shown by the yearly view, and as
\* aggregateByYear gives it), and the all-time totals and grand total are
\* the sums of the year totals over the years present in the daily totals.
C19_RollupConsistency ==
    /\ (pc = "page" /\ shown.view = "yearly") =>
           /\ shown.yearTotal = aggregateByYear(dailyData, currentYear)
           /\ DOMAIN shown.cards = 1..12
           /\ \A k \in UsageKeys :
                  shown.yearTotal[k]
                      = SumFn([m \in 1..12 |-> shown.cards[m].monthData[k]], 1..12)
    /\ (pc = "page" /\ shown.view = "alltime") =>
           /\ \A y \in YearsPresent : \A k \in UsageKeys :
                  aggregateByYear(dailyData, y)[k]
                      = SumFn([m \in 1..12 |-> aggregateByMonth(dailyData, y, m)[k]],
                              1..12)
           /\ \A k \in UsageKeys :
                  shown.totals[k]
                      = SumFn([y \in YearsPresent |-> aggregateByYear(dailyData, y)[k]],
                              YearsPresent)
           /\ shown.grandTotal
                  = SumFn([y \in YearsPresent |->
                              getTotal(aggregateByYear(dailyData, y))], YearsPresent)

\* the all-time view over days of two years
C19_Witness ==
    /\ pc = "page" /\ shown.view = "alltime"
    /\ Cardinality(YearsPresent) = 2
    /\ shown.grandTotal = 7
    /\ \A y \in YearsPresent : getTotal(aggregateByYear(dailyData, y)) \in {3, 4}

\* C20 as written: the all-time average daily value is the grand total
\* divided by the number of days with data, and 0 when there are no days.
C20_AverageIsQuotient ==
    (pc = "page" /\ shown.view = "alltime") =>
        /\ shown.numDays = Len(dailyData)
        /\ IF shown.numDays = 0 THEN shown.avgDaily = 0
           ELSE shown.avgDaily * shown.numDays = shown.grandTotal

\* C20, amended: the all-time average daily value is the grand total divided
\* by the number of days with data, rounded to the nearest integer (a half
\* goes up), and 0 when there are no days.
C20_AverageIsRoundedQuotient ==
    (pc = "page" /\ shown.view = "alltime") =>
        /\ shown.numDays = Len(dailyData)
        /\ \A k \in UsageKeys : shown.totals[k] = CounterSum(DOMAIN dailyData, k)
        /\ shown.grandTotal = getTotal(shown.totals)
        /\ IF shown.numDays = 0 THEN shown.avgDaily = 0
           ELSE /\ 2 * shown.avgDaily * shown.numDays <= 2 * shown.grandTotal + shown.numDays
                /\ 2 * shown.grandTotal + shown.numDays
                       < 2 * shown.avgDaily * shown.numDays + 2 * shown.numDays

\* the all-time view of days whose total is no multiple of their number
C20_Witness ==
    /\ pc = "page" /\ shown.view = "alltime"
    /\ shown.numDays > 0
    /\ shown.grandTotal % shown.numDays # 0
    /\ shown.avgDaily > 0

\* the largest single-day total of the embedded data
MaxDayTotal == MaxOf({getTotal(dailyData[i].value) : i \in DOMAIN dailyData})

\* C21: the all-time peak day is the day with the largest single-day total
\* and, among days of equal total, the earliest date, whatever the order of
\* the days in the daily mapping.
C21_PeakIsEarliestMax ==
    (pc = "page" /\ shown.view = "alltime" /\ dailyData # <<>>) =>
        /\ shown.peakAmount = MaxDayTotal
        /\ \E i \in DOMAIN dailyData :
               /\ dailyData[i].key = shown.peakDay
               /\ getTotal(dailyData[i].value) = MaxDayTotal
               /\ \A j \in DOMAIN dailyData :
                      getTotal(dailyData[j].value) = MaxDayTotal
                          => ~StrLess(dailyData[j].key, shown.peakDay)

\* C22: every day present in the daily totals (and so counted in
\* days_with_data and spanned by date_range) has at least one of its four
\* totals above zero.
C22_DaysHaveTokens ==
    ScanOver =>
        \A i \in DOMAIN daily_usage :
            \E k \in UsageKeys : daily_usage[i].value[k] > 0

\* the operations main performed so far, in order
Ops == [i \in DOMAIN effects |-> effects[i].op]

\* C23: with --json main prints the canonical structure and stops: it writes
\* no page and launches no browser, with or without --no-open; without --json
\* it writes the page, and launches the browser exactly when --no-open is
\* absent.
C23_JsonModeStops ==
    /\ args.json =>
           /\ \A i \in DOMAIN effects : effects[i].op = "print_json"
           /\ pc = "done" => effects = <<Effect("print_json", usage_data)>>
    /\ ~args.json =>
           /\ \A i \in DOMAIN effects : effects[i].op # "print_json"
           /\ pc \in {"written", "done"} =>
                  /\ Cardinality({i \in DOMAIN effects :
                                     effects[i].op = "write_html"}) = 1
                  /\ \A i \in DOMAIN effects :
                         effects[i].op = "write_html"
                             => effects[i].data = usage_data
           /\ pc = "done" =>
                  /\ args.no_open => \A i \in DOMAIN effects : effects[i].op # "open"
                  /\ ~args.no_open => Ops[Len(effects)] = "open"
           /\ pc # "done" => \A i \in DOMAIN effects : effects[i].op # "open"

\* a finished --json run without --no-open
C23_Witness ==
    /\ pc = "done" /\ args.json /\ ~args.no_open
    /\ Ops = <<"print_json">>
    /\ usage_data.days_with_data = 2

Scanning == pc \in {"files", "lines"}

\* C25: daily aggregation starts only after the last line of the last file
\* has been reconciled: nothing is added to the daily totals while a
\* measurement is still to be processed, and the reconciliation table is not
\* modified once aggregation has started.
C25_AggregationAfterScan ==
    [][/\ Scanning' => daily_usage' = <<>> /\ msg_count' = 0
       /\ ~Scanning => message_data' = message_data /\ ~Scanning'
       /\ daily_usage' # daily_usage =>
              /\ pc = "aggregate"
              /\ daily_usage' = aggregate(message_data, <<>>)]_vars

\* the daily totals of a table of two ids, just computed
C25_Witness ==
    /\ pc = "parsed" /\ Len(message_data) = 2
    /\ nfiles = MaxFiles
    /\ daily_usage # <<>>

\* C26: during the scan each of the four counters of an id in the
\* reconciliation table never decreases from one processed line to the next,
\* in any file, and an entry once created is never removed.
C26_CountersNeverDecrease ==
    [][\A i \in DOMAIN message_data :
           /\ i \in DOMAIN message_data'
           /\ message_data'[i].key = message_data[i].key
           /\ \A c \in Counters :
                  message_data'[i].value[c[1]] >= message_data[i].value[c[1]]]_vars

\* a line of the second file has raised a counter of an entry made in the
\* first
C26_Witness ==
    /\ pc = "lines" /\ nfiles = 2
    /\ at_open # <<>>
    /\ \E i \in DOMAIN at_open :
           /\ message_data[i].key = at_open[i].key
           /\ \E c \in Counters :
                  message_data[i].value[c[1]] > at_open[i].value[c[1]]

\* the arrow of nav-prev (nav-next) carries the class 'disabled': set by the
\* last render of the monthly or the yearly view
PrevShownDisabled == shown.view \in {"monthly", "yearly"} /\ shown.prev_disabled
NextShownDisabled == shown.view \in {"monthly", "yearly"} /\ shown.next_disabled

\* C27: in the page, after any sequence of tab switches, previous/next
\* clicks, keyboard shortcuts and month-card clicks the displayed year
\* currentYear stays within minYear..maxYear: a previous/next action whose
\* arrow is shown as disabled changes neither the displayed month nor the
\* displayed year.
C27_YearStaysInRange ==
    [][/\ pc' = "page" => minYear' <= currentYear' /\ currentYear' <= maxYear'
       /\ (pc = "page" /\ PrevShownDisabled /\ NavPrev)
              => UNCHANGED <<currentYear, currentMonth>>
       /\ (pc = "page" /\ NextShownDisabled /\ NavNext)
              => UNCHANGED <<currentYear, currentMonth>>]_vars

\* C28: in the page currentMonth is always in 1..12: a step back from month
\* 1 gives month 12 of the year before, a step forward from month 12 gives
\* month 1 of the year after, and in the monthly view previous followed by
\* next, or next followed by previous, restores the month and the year.
C28_MonthWraps ==
    [][/\ pc' = "page" => currentMonth' \in 1..12
       /\ (currentView = "monthly" /\ NavPrev) =>
              /\ <<currentYear', currentMonth'>>
                     = IF currentMonth = 1 THEN <<currentYear - 1, 12>>
                       ELSE <<currentYear, currentMonth - 1>>
              /\ monthly_next(currentYear', currentMonth')
                     = <<currentYear, currentMonth>>
       /\ (currentView = "monthly" /\ NavNext) =>
              /\ <<currentYear', currentMonth'>>
                     = IF currentMonth = 12 THEN <<currentYear + 1, 1>>
                       ELSE <<currentYear, currentMonth + 1>>
              /\ monthly_prev(currentYear', currentMonth')
                     = <<currentYear, currentMonth>>]_vars

\* the monthly view shows December of the year before the latest day, a
\* January day: the step back from January has been taken
C28_Witness ==
    /\ pc = "page" /\ shown.view = "monthly"
    /\ dailyData # <<>>
    /\ MonthOf(sortedKeys(dailyData)[Len(dailyData)]) = 1
    /\ currentMonth = 12
    /\ currentYear = YearOf(sortedKeys(dailyData)[Len(dailyData)]) - 1
    /\ shown.nav_current = <<12, currentYear>>

\* C29: while the help modal is open every key other than Escape leaves
\* currentView, currentYear and currentMonth as they are and the modal open;
\* Escape always closes the modal; and the protip, once hidden by the
\* opening of the modal, is never shown again.
C29_ModalBlocksKeys ==
    [][/\ \A key \in KeyNames \ {"Escape"} :
              (helpOpen /\ KeyDown(key)) =>
                  /\ helpOpen'
                  /\ UNCHANGED <<currentView, currentYear, currentMonth>>
       /\ helpOpen =>
              /\ ~helpOpen'
              /\ UNCHANGED <<currentView, currentYear, currentMonth>>
       /\ KeyDown("Escape") => ~helpOpen'
       /\ helpOpen' => protipHidden'
       /\ protipHidden => protipHidden']_vars

\* the modal has been opened and closed, and the all-time view is shown: the
\* protip stays hidden
C29_Witness ==
    /\ pc = "page" /\ ~helpOpen /\ protipHidden
    /\ currentView = "alltime"
    /\ shown.view = "alltime"

====
